---- MODULE Spec2Model ----
(***************************************************************************)
(* Model of the Android platform layer: the project scaffolder             *)
(* (bin/lib/create.js) and the lifecycle facade                            *)
(* (bin/templates/cordova/Api.js).                                         *)
(*                                                                         *)
(* Strings that the code inspects character by character (package         *)
(* identifiers, project names) are sequences of one-character strings.     *)
(* Paths are sequences of path components; an absolute path starts with    *)
(* the component "/", the empty sequence is the empty string ''.           *)
(* A promise is a record [state, value]; a promise chain advances one      *)
(* callback per step.                                                      *)
(***************************************************************************)
EXTENDS Integers, Sequences, FiniteSets, TLC

(***************************************************************************)
(* Bounds of the model                                                     *)
(***************************************************************************)
\* number of dot-separated segments of the package identifiers tried
MaxSegs == 3
\* length of the raw project names tried (besides the reserved names)
MaxNameLen == 2
\* number of <framework> elements the plugins tried declare, at most
MaxFrameworks == 2
\* number of calls made one after the other on the same project
MaxCalls == 2

(***************************************************************************)
(* Characters and regular-expression classes                               *)
(***************************************************************************)
LowerCase == {"a", "b", "c", "d", "e", "f", "g", "h", "i", "j", "k", "l", "m",
              "n", "o", "p", "q", "r", "s", "t", "u", "v", "w", "x", "y", "z"}
UpperCase == {"A", "B", "C", "D", "E", "F", "G", "H", "I", "J", "K", "L", "M",
              "N", "O", "P", "Q", "R", "S", "T", "U", "V", "W", "X", "Y", "Z"}
Digits == {"0", "1", "2", "3", "4", "5", "6", "7", "8", "9"}

\* [a-zA-Z]
IsLetter(ch) == ch \in LowerCase \cup UpperCase
\* [a-zA-Z0-9_], which is also \w
IsWordChar(ch) == ch \in LowerCase \cup UpperCase \cup Digits \cup {"_"}

\* first position >= i of s that holds no word character (Len(s)+1 if none):
\* where a greedy [a-zA-Z0-9_]* started at i stops
RECURSIVE SkipWord(_, _)
SkipWord(s, i) ==
    IF i <= Len(s) /\ IsWordChar(s[i]) THEN SkipWord(s, i + 1) ELSE i

\* (\.[a-zA-Z][a-zA-Z0-9_]*)+$ matched from position i
RECURSIVE MatchDotGroups(_, _)
MatchDotGroups(s, i) ==
    /\ i + 1 <= Len(s)
    /\ s[i] = "."
    /\ IsLetter(s[i + 1])
    /\ LET k == SkipWord(s, i + 2)
       IN  k = Len(s) + 1 \/ MatchDotGroups(s, k)

\* /^[a-zA-Z][a-zA-Z0-9_]+(\.[a-zA-Z][a-zA-Z0-9_]*)+$/.test(s)
PackageRegexTest(s) ==
    /\ Len(s) >= 2
    /\ IsLetter(s[1])
    /\ IsWordChar(s[2])
    /\ MatchDotGroups(s, SkipWord(s, 3))

\* \b at the gap before position i of s (i in 1..Len(s)+1)
WordBoundary(s, i) ==
    LET before == i > 1 /\ IsWordChar(s[i - 1])
        after  == i <= Len(s) /\ IsWordChar(s[i])
    IN  before # after

\* /\b[Cc]lass\b/.test(s)
ClassRegexTest(s) ==
    \E i \in 1..Len(s) :
        /\ i + 4 <= Len(s)
        /\ WordBoundary(s, i)
        /\ s[i] \in {"C", "c"}
        /\ s[i + 1] = "l" /\ s[i + 2] = "a" /\ s[i + 3] = "s" /\ s[i + 4] = "s"
        /\ WordBoundary(s, i + 5)

\* /^[0-9]/.test(s)
DigitStartRegexTest(s) == Len(s) >= 1 /\ s[1] \in Digits

\* s.replace(/[^\w.]/g, '_')
Sanitize(s) ==
    [i \in 1..Len(s) |-> IF IsWordChar(s[i]) \/ s[i] = "." THEN s[i] ELSE "_"]

(***************************************************************************)
(* String literals of the code                                             *)
(***************************************************************************)
CordovaActivity == <<"C", "o", "r", "d", "o", "v", "a", "A", "c", "t", "i", "v", "i", "t", "y">>
CordovaExample == <<"C", "o", "r", "d", "o", "v", "a", "E", "x", "a", "m", "p", "l", "e">>
DefaultPackage == <<"m", "y", ".", "c", "o", "r", "d", "o", "v", "a", ".", "p", "r", "o", "j", "e", "c", "t">>
MainActivity == <<"M", "a", "i", "n", "A", "c", "t", "i", "v", "i", "t", "y">>

(***************************************************************************)
(* Promises                                                                *)
(***************************************************************************)
Resolved(v) == [state |-> "resolved", value |-> v]
Rejected(e) == [state |-> "rejected", value |-> e]
Pending == [state |-> "pending", value |-> "-"]
Thrown(e) == [state |-> "thrown", value |-> e]

(***************************************************************************)
(* validatePackageName, validateProjectName                                *)
(***************************************************************************)
validatePackageName_NoClassCheck(package_name) ==
    IF ~PackageRegexTest(package_name)
    THEN Rejected("Package name must look like: com.company.Name")
    ELSE Resolved("undefined")

validatePackageName(package_name) ==
    IF ~PackageRegexTest(package_name)
    THEN Rejected("Package name must look like: com.company.Name")
    ELSE IF ClassRegexTest(package_name)
    THEN Rejected("\"class\" is a reserved word")
    ELSE Resolved("undefined")

validateProjectName_NoDigitCheck(project_name) ==
    IF project_name = <<>>
    THEN Rejected("Project name cannot be empty")
    ELSE IF project_name = CordovaActivity
    THEN Rejected("Project name cannot be CordovaActivity")
    ELSE Resolved("undefined")

validateProjectName(project_name) ==
    IF project_name = <<>>
    THEN Rejected("Project name cannot be empty")
    ELSE IF project_name = CordovaActivity
    THEN Rejected("Project name cannot be CordovaActivity")
    ELSE IF DigitStartRegexTest(project_name)
    THEN Rejected("Project name must not begin with a number")
    ELSE Resolved("undefined")

(***************************************************************************)
(* Inputs tried                                                            *)
(***************************************************************************)
\* segments the package identifiers are built from
Segments ==
    { <<>>, <<"a">>, <<"a", "b">>, <<"a", "1">>, <<"1", "a">>, <<"a", "-">>,
      <<"c", "l", "a", "s", "s">>, <<"C", "l", "a", "s", "s">>,
      <<"C", "L", "A", "S", "S">>, <<"c", "L", "a", "s", "s">>,
      <<"c", "l", "a", "s", "s", "_">> }

RECURSIVE PackagesOf(_)
PackagesOf(n) ==
    IF n = 1 THEN Segments
    ELSE {p \o <<".">> \o s : p \in PackagesOf(n - 1), s \in Segments}

PackageNames == UNION {PackagesOf(n) : n \in 1..MaxSegs}

NameChars == {"a", "1", " ", ".", "_"}

RECURSIVE NamesOfLen(_)
NamesOfLen(n) ==
    IF n = 0 THEN {<<>>}
    ELSE {p \o <<c>> : p \in NamesOfLen(n - 1), c \in NameChars}

ProjectNames ==
    UNION {NamesOfLen(n) : n \in 0..MaxNameLen}
        \cup {CordovaActivity, CordovaExample, CordovaActivity \o <<"1">>,
              <<"9">> \o CordovaActivity}

(***************************************************************************)
(* Paths (node's path module) and the disk                                 *)
(***************************************************************************)
\* process.cwd()
Cwd == <<"/", "w">>

IsAbsolute(p) == Len(p) > 0 /\ p[1] = "/"

\* components of an absolute path with "." and ".." resolved (".." at the
\* root stays at the root)
RECURSIVE NormAbs(_, _)
NormAbs(acc, rest) ==
    IF rest = <<>> THEN acc
    ELSE IF Head(rest) = "." THEN NormAbs(acc, Tail(rest))
    ELSE IF Head(rest) = ".."
    THEN NormAbs(IF acc = <<>> THEN acc ELSE SubSeq(acc, 1, Len(acc) - 1), Tail(rest))
    ELSE NormAbs(Append(acc, Head(rest)), Tail(rest))

\* components of a relative path with "." and ".." resolved (leading ".." kept)
RECURSIVE NormRel(_, _)
NormRel(acc, rest) ==
    IF rest = <<>> THEN acc
    ELSE IF Head(rest) = "." THEN NormRel(acc, Tail(rest))
    ELSE IF Head(rest) = ".." /\ acc # <<>> /\ acc[Len(acc)] # ".."
    THEN NormRel(SubSeq(acc, 1, Len(acc) - 1), Tail(rest))
    ELSE NormRel(Append(acc, Head(rest)), Tail(rest))

\* path.resolve(p): the absolute path that p names from the working directory
PathResolve(p) ==
    IF IsAbsolute(p) THEN <<"/">> \o NormAbs(<<>>, Tail(p))
    ELSE <<"/">> \o NormAbs(<<>>, Tail(Cwd) \o p)

\* length of the longest common prefix of a and b
RECURSIVE CommonPrefixLen(_, _)
CommonPrefixLen(a, b) ==
    IF a # <<>> /\ b # <<>> /\ Head(a) = Head(b)
    THEN 1 + CommonPrefixLen(Tail(a), Tail(b))
    ELSE 0

\* path.relative(from, to); '' when both name the same directory
PathRelative(from, to) ==
    LET f == PathResolve(from)
        t == PathResolve(to)
        c == CommonPrefixLen(f, t)
    IN  [i \in 1..(Len(f) - c) |-> ".."] \o SubSeq(t, c + 1, Len(t))

\* path.join(a, b) for a directory a and a relative b
PathJoin(a, b) ==
    IF IsAbsolute(a) THEN <<"/">> \o NormAbs(<<>>, Tail(a) \o b)
    ELSE NormRel(<<>>, a \o b)

\* a disk is a function from the absolute paths that exist to their nodes
Dir == [kind |-> "dir", data |-> [x \in {} |-> <<>>]]
File(data) == [kind |-> "file", data |-> data]
Link(to) == [kind |-> "link", data |-> [to |-> to]]
NoData == [x \in {} |-> <<>>]

\* fs.existsSync(p): the empty path names nothing
ExistsSync(d, p) == p # <<>> /\ PathResolve(p) \in DOMAIN d

IsPrefix(a, b) == Len(a) <= Len(b) /\ SubSeq(b, 1, Len(a)) = a

\* write node n at path p (p relative to the working directory or absolute)
Put(d, p, n) ==
    LET q == PathResolve(p)
    IN  [r \in DOMAIN d \cup {q} |-> IF r = q THEN n ELSE d[r]]

\* mkdir -p p: p and its missing ancestors become directories
MkdirP(d, p) ==
    LET q == PathResolve(p)
        new == {SubSeq(q, 1, n) : n \in 1..Len(q)} \ DOMAIN d
    IN  [r \in DOMAIN d \cup new |-> IF r \in new THEN Dir ELSE d[r]]

\* rm -rf p: p and everything below it
RmRf(d, p) ==
    LET q == PathResolve(p)
    IN  [r \in {r \in DOMAIN d : ~IsPrefix(q, r)} |-> d[r]]

\* the disks a call may find: the working directory with an older project
\* in it, with or without a directory of the default project name
BaseDisk ==
    MkdirP(Put(MkdirP([r \in {} |-> Dir], <<"/", "w", "old">>),
               <<"/", "w", "old", "keep.txt">>, File(NoData)),
           <<"/", "w", "old">>)

InitialDisks == {BaseDisk, MkdirP(BaseDisk, <<"CordovaExample">>)}

(***************************************************************************)
(* create.js: constants and file-system helpers                            *)
(***************************************************************************)
\* ROOT: the directory the tool is installed in (path.join(__dirname, '..', '..'))
ROOT == <<"/", "opt", "cordova-android">>

MIN_SDK_VERSION == 16

\* check_reqs.get_target() is 'android-<TargetApiLevel>'
TargetApiLevel == 25

\* placeholders of the template files
PlaceholderName == <<"__NAME__">>
PlaceholderActivity == <<"__ACTIVITY__">>
PlaceholderId == <<"__ID__">>

\* decimal text of a natural number, as an XML attribute stores it
DigitChars == <<"0", "1", "2", "3", "4", "5", "6", "7", "8", "9">>

RECURSIVE ToText(_)
ToText(n) ==
    IF n < 10 THEN <<DigitChars[n + 1]>>
    ELSE ToText(n \div 10) \o <<DigitChars[(n % 10) + 1]>>

\* Number(text) of a text of decimal digits (Number('') is 0)
RECURSIVE NumberOf(_)
NumberOf(s) ==
    IF s = <<>> THEN 0
    ELSE 10 * NumberOf(SubSeq(s, 1, Len(s) - 1))
         + (CHOOSE d \in 0..9 : DigitChars[d + 1] = s[Len(s)])

\* the manifest of the project template as AndroidManifest loads it; the
\* SDK versions are attribute texts, debuggable is "unset" while the
\* application element does not carry the attribute
TemplateManifest ==
    [package |-> PlaceholderId, activity |-> PlaceholderActivity,
     minSdkVersion |-> ToText(MIN_SDK_VERSION), targetSdkVersion |-> <<"0">>,
     debuggable |-> "unset"]

\* AndroidManifest: new AndroidManifest(path) reads the file at path and
\* throws when there is none; write() saves to the path it was read from
CanLoadManifest(d, p) ==
    ExistsSync(d, p) /\ d[PathResolve(p)].kind = "file"
        /\ DOMAIN d[PathResolve(p)].data = DOMAIN TemplateManifest

LoadManifest(d, p) == d[PathResolve(p)].data

setPackageId(m, id) == [m EXCEPT !.package = id]
setActivityName(m, name) == [m EXCEPT !.activity = name]
setMinSdkVersion(m, n) == [m EXCEPT !.minSdkVersion = ToText(n)]
setTargetSdkVersion(m, n) == [m EXCEPT !.targetSdkVersion = ToText(n)]
setDebuggable(m, value) ==
    [m EXCEPT !.debuggable = IF value THEN "true" ELSE "false"]

WriteManifest(d, p, m) == Put(d, p, File(m))

\* shell.config.fatal once setShellFatal(value, func) is over: oldVal is put
\* back by the statement after func(), which a throwing func never reaches
setShellFatal(oldVal, value, funcThrows) ==
    IF funcThrows THEN value ELSE oldVal

getFrameworkDir(projectPath, shared) ==
    IF shared THEN PathJoin(ROOT, <<"framework">>)
    ELSE PathJoin(projectPath, <<"CordovaLib">>)

\* fs.unlinkSync(p) succeeds on anything that exists and is not a directory
CanUnlink(d, p) ==
    PathResolve(p) \in DOMAIN d /\ d[PathResolve(p)].kind # "dir"

Unlink(d, p) == [r \in DOMAIN d \ {PathResolve(p)} |-> d[r]]

\* copyJsAndLibrary without the attempt to unlink what is at CordovaLib
copyJsAndLibrary_NoUnlink(d, projectPath, shared) ==
    LET nestedCordovaLibPath == getFrameworkDir(projectPath, FALSE)
        d1 == Put(MkdirP(d, PathJoin(projectPath, <<"assets", "www">>)),
                  PathJoin(projectPath, <<"assets", "www", "cordova.js">>),
                  File(NoData))
        d2 == Put(MkdirP(d1, PathJoin(projectPath, <<"platform_www">>)),
                  PathJoin(projectPath, <<"platform_www", "cordova.js">>),
                  File(NoData))
        d3 == MkdirP(d2, PathJoin(projectPath, <<"platform_www", "cordova-js-src">>))
        d5 == IF shared THEN RmRf(d3, nestedCordovaLibPath)
              ELSE RmRf(d3, PathJoin(nestedCordovaLibPath, <<"src">>))
    IN  IF shared
        THEN Put(d5, nestedCordovaLibPath,
                 Link(PathRelative(projectPath, getFrameworkDir(projectPath, TRUE))))
        ELSE MkdirP(Put(MkdirP(d5, nestedCordovaLibPath),
                        PathJoin(nestedCordovaLibPath, <<"build.gradle">>),
                        File(NoData)),
                    PathJoin(nestedCordovaLibPath, <<"src">>))

copyJsAndLibrary(d, projectPath, shared) ==
    LET nestedCordovaLibPath == getFrameworkDir(projectPath, FALSE)
        d1 == Put(MkdirP(d, PathJoin(projectPath, <<"assets", "www">>)),
                  PathJoin(projectPath, <<"assets", "www", "cordova.js">>),
                  File(NoData))
        d2 == Put(MkdirP(d1, PathJoin(projectPath, <<"platform_www">>)),
                  PathJoin(projectPath, <<"platform_www", "cordova.js">>),
                  File(NoData))
        d3 == MkdirP(d2, PathJoin(projectPath, <<"platform_www", "cordova-js-src">>))
        wasSymlink == CanUnlink(d3, nestedCordovaLibPath)
        d4 == IF wasSymlink THEN Unlink(d3, nestedCordovaLibPath) ELSE d3
        d5 == IF shared THEN RmRf(d4, nestedCordovaLibPath)
              ELSE IF ~wasSymlink
              THEN RmRf(d4, PathJoin(nestedCordovaLibPath, <<"src">>))
              ELSE d4
    IN  IF shared
        THEN Put(d5, nestedCordovaLibPath,
                 Link(PathRelative(projectPath, getFrameworkDir(projectPath, TRUE))))
        ELSE MkdirP(Put(MkdirP(d5, nestedCordovaLibPath),
                        PathJoin(nestedCordovaLibPath, <<"build.gradle">>),
                        File(NoData)),
                    PathJoin(nestedCordovaLibPath, <<"src">>))

\* project.properties is a text: a sequence of lines.  A line is a
\* "target=android-<n>" line, an "android.library.reference.<n>=<value>"
\* line, a line of white space only ("blank") or any other line; value is
\* the referenced path as its components; eol is how the line ends: "LF"
\* (\n), "CRLF" (\r\n), "CR" (\r) or "none" (end of the text)
Line(key, n, value, eol) == [key |-> key, n |-> n, value |-> value, eol |-> eol]
TargetLine(n, eol) == Line("target", n, <<>>, eol)
RefLine(n, value, eol) == Line("ref", n, value, eol)
OtherLine(eol) == Line("other", 0, <<>>, eol)
BlankLine == Line("blank", 0, <<>>, "LF")

CordovaLibRef == <<"CordovaLib">>

\* the project.properties of the project template
TemplateProperties == <<OtherLine("LF"), TargetLine(0, "LF"), RefLine(1, CordovaLibRef, "LF")>>

\* the keys of an object in the order they were first set
RECURSIVE Dedup(_, _)
Dedup(acc, rest) ==
    IF rest = <<>> THEN acc
    ELSE IF \E i \in 1..Len(acc) : acc[i] = Head(rest)
    THEN Dedup(acc, Tail(rest))
    ELSE Dedup(Append(acc, Head(rest)), Tail(rest))

\* /^\s*android\.library\.reference\.\d+=(.*)(?:\s|$)/mg matches every
\* reference line, however it ends: the group stops before \r and \n
RECURSIVE RefValues(_)
RefValues(data) ==
    IF data = <<>> THEN <<>>
    ELSE IF Head(data).key = "ref"
    THEN <<Head(data).value>> \o RefValues(Tail(data))
    ELSE RefValues(Tail(data))

extractSubProjectPaths(data) == Dedup(<<>>, RefValues(data))

\* the three patterns of the filter of writeProjectProperties:
\* /^CordovaLib$/, /[\\\/]cordova-android[\\\/]framework$/ (a separator
\* comes before cordova-android) and /^(\.\.[\\\/])+framework$/
IsFrameworkRef(p) ==
    \/ p = CordovaLibRef
    \/ /\ Len(p) >= 3
       /\ p[Len(p) - 1] = "cordova-android"
       /\ p[Len(p)] = "framework"
    \/ /\ Len(p) >= 2
       /\ p[Len(p)] = "framework"
       /\ \A i \in 1..(Len(p) - 1) : p[i] = ".."

RECURSIVE FilterRefs(_)
FilterRefs(refs) ==
    IF refs = <<>> THEN <<>>
    ELSE IF IsFrameworkRef(Head(refs)) THEN FilterRefs(Tail(refs))
    ELSE <<Head(refs)>> \o FilterRefs(Tail(refs))

\* data.replace(/^target=.*/m, 'target=' + target_api): the first target line
RECURSIVE ReplaceTarget(_, _)
ReplaceTarget(data, target_api) ==
    IF data = <<>> THEN <<>>
    ELSE IF Head(data).key = "target"
    THEN <<[Head(data) EXCEPT !.n = target_api]>> \o Tail(data)
    ELSE <<Head(data)>> \o ReplaceTarget(Tail(data), target_api)

\* what a match of /^\s*android\.library\.reference\.\d+=.*\n/ takes from
\* the lines before the reference line: ^\s* starts at the earliest line
\* start from which only white space precedes the reference, so blank lines
\* go, and after a line that ends in \r\n it starts between \r and \n
RECURSIVE StripBefore(_)
StripBefore(acc) ==
    IF acc = <<>> THEN acc
    ELSE LET last == acc[Len(acc)]
             front == SubSeq(acc, 1, Len(acc) - 1)
         IN  IF last.key = "blank" THEN StripBefore(front)
             ELSE IF last.eol = "CRLF" THEN Append(front, [last EXCEPT !.eol = "CR"])
             ELSE acc

\* data.replace(/^\s*android\.library\.reference\.\d+=.*\n/mg, ''): a
\* reference line goes only when \n comes right after its value ("." stops
\* before \r, and the last line may have no \n)
RECURSIVE RemoveReferenceLines(_, _)
RemoveReferenceLines(acc, rest) ==
    IF rest = <<>> THEN acc
    ELSE IF Head(rest).key = "ref" /\ Head(rest).eol = "LF"
    THEN RemoveReferenceLines(StripBefore(acc), Tail(rest))
    ELSE RemoveReferenceLines(Append(acc, Head(rest)), Tail(rest))

\* if (!/\n$/.exec(data)) data += '\n'
EndWithNewline(data) ==
    IF data = <<>> THEN <<BlankLine>>
    ELSE LET last == data[Len(data)]
             front == SubSeq(data, 1, Len(data) - 1)
         IN  IF last.eol = "none" THEN Append(front, [last EXCEPT !.eol = "LF"])
             ELSE IF last.eol = "CR" THEN Append(front, [last EXCEPT !.eol = "CRLF"])
             ELSE data

ReferenceLines(subProjects) ==
    [i \in 1..Len(subProjects) |-> RefLine(i, subProjects[i], "LF")]

writeProjectProperties(d, projectPath, target_api) ==
    LET dstPath == PathJoin(projectPath, <<"project.properties">>)
        data == ReplaceTarget(IF ExistsSync(d, dstPath)
                              THEN d[PathResolve(dstPath)].data
                              ELSE TemplateProperties, target_api)
        subProjects == <<CordovaLibRef>> \o FilterRefs(extractSubProjectPaths(data))
        stripped == RemoveReferenceLines(<<>>, data)
    IN  Put(d, dstPath, File(EndWithNewline(stripped) \o ReferenceLines(subProjects)))

copyBuildRules(d, projectPath) ==
    Put(d, PathJoin(projectPath, <<"build.gradle">>), File(NoData))

copyScripts(d, projectPath) ==
    LET destScriptsDir == PathJoin(projectPath, <<"cordova">>)
        d1 == RmRf(d, destScriptsDir)
        d2 == MkdirP(d1, PathJoin(destScriptsDir, <<"lib">>))
        d3 == MkdirP(d2, PathJoin(destScriptsDir, <<"node_modules">>))
    IN  Put(Put(d3, PathJoin(destScriptsDir, <<"Api.js">>), File(NoData)),
            PathJoin(destScriptsDir, <<"lib", "check_reqs.js">>), File(NoData))

(***************************************************************************)
(* exports.create: the steps of its scaffolding callback, in order         *)
(***************************************************************************)
\* CreateLocals with the activity name always the default
CreateLocals_DefaultActivity(project_path, package_name, project_name, safe_activity_name, link) ==
    [project_path |-> project_path, package_name |-> package_name,
     project_name |-> project_name, safe_activity_name |-> MainActivity,
     link |-> link]

\* locals of a create call
CreateLocals(project_path, package_name, project_name, safe_activity_name, link) ==
    [project_path |-> project_path, package_name |-> package_name,
     project_name |-> project_name, safe_activity_name |-> safe_activity_name,
     link |-> link]

\* number of steps of the scaffolding callback; steps 1..NumFatalSteps run
\* inside setShellFatal(true, ...)
NumCreateSteps == 10
NumFatalSteps == 8

\* step i on disk d; every path is joined to project_path, the destination
\* relative to the working directory ('' when it is the working directory)
CreateStep(i, d, L) ==
    LET P == L.project_path
        app_path == PathJoin(P, <<"app", "src", "main">>)
    IN  CASE i = 1 ->   \* copy project template (assets, res, gitignore)
                Put(Put(MkdirP(MkdirP(d, PathJoin(P, <<"assets", "www">>)),
                               PathJoin(P, <<"res", "values">>)),
                        PathJoin(P, <<"res", "values", "strings.xml">>),
                        File([name |-> PlaceholderName])),
                    PathJoin(P, <<".gitignore">>), File(NoData))
          [] i = 2 ->   \* shell.mkdir(libs)
                MkdirP(d, PathJoin(P, <<"libs">>))
          [] i = 3 ->
                copyJsAndLibrary(d, P, L.link)
          [] i = 4 ->   \* Android Studio paths
                MkdirP(MkdirP(MkdirP(d, PathJoin(app_path, <<"java">>)),
                              PathJoin(app_path, <<"assets">>)),
                       PathJoin(app_path, <<"res">>))
          [] i = 5 ->   \* the activity class (its directory is the package path)
                Put(Put(MkdirP(d, PathJoin(app_path, <<"java", "package">>)),
                        PathJoin(app_path, <<"java", "package", "Activity.java">>),
                        File([activity |-> L.safe_activity_name, id |-> L.package_name])),
                    PathJoin(P, <<"res", "values", "strings.xml">>),
                    File([name |-> L.project_name]))
          [] i = 6 ->   \* manifest from the template, written under app/src/main
                WriteManifest(d, PathJoin(app_path, <<"AndroidManifest.xml">>),
                    setActivityName(
                        setTargetSdkVersion(
                            setPackageId(TemplateManifest, L.package_name),
                            TargetApiLevel),
                        L.safe_activity_name))
          [] i = 7 -> copyScripts(d, P)
          [] i = 8 -> copyBuildRules(d, P)
          [] i = 9 -> writeProjectProperties(d, P, TargetApiLevel)
          [] i = 10 -> d    \* prepBuildFiles: the generated project's builder

\* the disk after steps 1..n
RECURSIVE CreateSteps(_, _, _)
CreateSteps(n, d, L) ==
    IF n = 0 THEN d ELSE CreateStep(n, CreateSteps(n - 1, d, L), L)

(***************************************************************************)
(* State                                                                   *)
(***************************************************************************)
VARIABLES
    op,             \* the exported function that was called ("idle" before)
    pc,             \* the callback of its promise chain that runs next
    result,         \* the promise the call returned
    chain,          \* the promise the next callback of the chain hangs on
    trace,          \* calls made to collaborators, in order
    disk,           \* the file system
    disk0,          \* the file system when the call was made
    shellFatal,     \* shell.config.fatal
    input,          \* argument of a validatePackageName/validateProjectName call
    cargs,          \* arguments of a create call
    locals,         \* locals of a create call
    android_studio, \* this.android_studio of the Api instance
    aargs,          \* arguments of a call to a method of the Api instance
    installOptions, \* installOptions of addPlugin once its defaults are filled in
    callOptions,    \* the options object of the build, run or clean under way
    pmOptions,      \* the options object handed to the plugin manager
    ext,            \* the collaborator's asynchronous operation under way
    ret,            \* callback that runs once the clean under way has settled
    uargs,          \* arguments of an update call
    prev,           \* the call made before the one under way
    calls           \* number of calls made before the one under way

updateVars == <<uargs, prev, calls>>
createVars == <<disk, disk0, shellFatal, cargs, locals, updateVars>>
apiVars == <<android_studio, aargs, installOptions, callOptions, pmOptions, ext, ret>>

\* an options object of build, run and clean (defined = FALSE: undefined)
Options(defined, noPrepare, studio) ==
    [defined |-> defined, noPrepare |-> noPrepare, studio |-> studio]
UndefinedOptions == Options(FALSE, FALSE, FALSE)

Event(ev, ph, opt) == [ev |-> ev, ph |-> ph, opt |-> opt]

NoCreateArgs ==
    [project_path |-> <<>>, packageName |-> <<>>, name |-> <<>>,
     android_activityName |-> <<>>, activityName |-> <<>>, link |-> FALSE]
NoLocals == CreateLocals(<<>>, <<>>, <<>>, <<>>, FALSE)

\* destinations a create call is given (<<>>: none given)
CreatePaths ==
    { <<>>, <<"new">>, <<"/", "w", "new">>, <<"old">>, <<"old", "sub">>,
      <<"/", "w">>, <<".">> }
\* config.packageName() (<<>>: none configured)
CreatePackages ==
    { <<>>, <<"a", ".", "c">>,
      <<"a", "b", ".", "c", "l", "a", "s", "s">>,
      <<"a", "b", ".", "C", "L", "A", "S", "S">> }
\* config.name() (<<>>: none configured)
CreateNames ==
    { <<>>, <<"1", "a">>, <<" ", "a">>, CordovaActivity }
\* config.android_activityName(), options.activityName (<<>>: none)
ActivityNames == { <<>>, <<"A", "c", "t">> }
OptionActivityNames == { <<>>, <<"O", "p", "t">> }

(***************************************************************************)
(* validatePackageName and validateProjectName called on their own         *)
(***************************************************************************)
CallValidatePackageName ==
    /\ pc = "idle"
    /\ \E package_name \in PackageNames :
        /\ input' = package_name
        /\ result' = validatePackageName(package_name)
    /\ op' = "validatePackageName"
    /\ pc' = "done"
    /\ UNCHANGED <<chain, trace, createVars, apiVars>>

CallValidateProjectName ==
    /\ pc = "idle"
    /\ \E project_name \in ProjectNames :
        /\ input' = project_name
        /\ result' = validateProjectName(project_name)
    /\ op' = "validateProjectName"
    /\ pc' = "done"
    /\ UNCHANGED <<chain, trace, createVars, apiVars>>

(***************************************************************************)
(* exports.create                                                          *)
(***************************************************************************)
\* the synchronous part: defaults, the existence check, validatePackageName
CreateCall ==
    /\ pc = "idle"
    /\ \E path \in CreatePaths, pkg \in CreatePackages, name \in CreateNames,
          cfgAct \in ActivityNames, optAct \in OptionActivityNames,
          link \in BOOLEAN :
        LET project_path ==
                PathRelative(Cwd, IF path = <<>> THEN <<"CordovaExample">> ELSE path)
            package_name == IF pkg = <<>> THEN DefaultPackage ELSE pkg
            project_name == IF name = <<>> THEN CordovaExample ELSE Sanitize(name)
            safe_activity_name ==
                IF cfgAct # <<>> THEN cfgAct
                ELSE IF optAct # <<>> THEN optAct ELSE MainActivity
        IN  /\ cargs' = [project_path |-> path, packageName |-> pkg, name |-> name,
                         android_activityName |-> cfgAct, activityName |-> optAct,
                         link |-> link]
            /\ IF ExistsSync(disk, project_path)
               THEN /\ result' = Rejected("Project already exists! Delete and recreate")
                    /\ pc' = "done"
                    /\ UNCHANGED <<chain, locals>>
               ELSE /\ locals' = CreateLocals(project_path, package_name,
                                              project_name, safe_activity_name, link)
                    /\ chain' = validatePackageName(package_name)
                    /\ result' = Pending
                    /\ pc' = "create_then1"
    /\ op' = "create"
    /\ disk0' = disk
    /\ UNCHANGED <<trace, disk, shellFatal, input, updateVars, apiVars>>

\* first callback: calls validateProjectName and drops the promise it returns
CreateThen1 ==
    /\ pc = "create_then1"
    /\ IF chain.state = "resolved"
       THEN /\ trace' = Append(trace,
                   Event("validateProjectName",
                         validateProjectName(locals.project_name).state, UndefinedOptions))
            /\ chain' = Resolved("undefined")
       ELSE UNCHANGED <<chain, trace>>
    /\ pc' = "create_then2"
    /\ UNCHANGED <<op, result, createVars, input, apiVars>>

\* CreateThen2 scaffolding whatever the chain brought
CreateThen2_IgnoresRejection ==
    /\ pc = "create_then2"
    /\ \E n \in 0..NumCreateSteps :
        /\ disk' = CreateSteps(n, disk, locals)
        /\ shellFatal' = setShellFatal(shellFatal, TRUE, n < NumFatalSteps)
        /\ trace' = IF n >= NumCreateSteps - 1
                    THEN Append(trace, Event("prepBuildFiles", "call", UndefinedOptions))
                    ELSE trace
        /\ chain' = IF n = NumCreateSteps THEN Resolved("undefined")
                    ELSE Rejected("create step failed")
    /\ pc' = "create_thenResolve"
    /\ UNCHANGED <<op, result, disk0, cargs, locals, input, updateVars, apiVars>>

\* second callback: scaffolds the project; any of its steps may throw
CreateThen2 ==
    /\ pc = "create_then2"
    /\ IF chain.state = "resolved"
       THEN \E n \in 0..NumCreateSteps :
            /\ disk' = CreateSteps(n, disk, locals)
            /\ shellFatal' = setShellFatal(shellFatal, TRUE, n < NumFatalSteps)
            /\ trace' = IF n >= NumCreateSteps - 1
                        THEN Append(trace, Event("prepBuildFiles", "call", UndefinedOptions))
                        ELSE trace
            /\ chain' = IF n = NumCreateSteps THEN Resolved("undefined")
                        ELSE Rejected("create step failed")
       ELSE UNCHANGED <<chain, trace, disk, shellFatal>>
    /\ pc' = "create_thenResolve"
    /\ UNCHANGED <<op, result, disk0, cargs, locals, input, updateVars, apiVars>>

\* .thenResolve(project_path)
CreateThenResolve ==
    /\ pc = "create_thenResolve"
    /\ result' = IF chain.state = "resolved" THEN Resolved("project_path") ELSE chain
    /\ pc' = "done"
    /\ UNCHANGED <<op, chain, trace, createVars, input, apiVars>>

(***************************************************************************)
(* exports.update                                                          *)
(***************************************************************************)
UpdateArgs(projectPath, link) == [projectPath |-> projectPath, link |-> link]
NoUpdateArgs == UpdateArgs(<<>>, FALSE)

\* the call made before the one under way: its function, its project
\* directory, its link option and the disk it found
PrevCall(o, path, link, d) == [op |-> o, path |-> path, link |-> link, disk0 |-> d]
NoPrev == PrevCall("none", <<>>, FALSE, [r \in {} |-> Dir])

\* project directories an update call is given
UpdatePaths == { <<"proj">>, <<"old">> }

\* projects of an earlier release that update is run on: the manifest
\* lies in the project directory; CordovaLib is absent, a link to a shared
\* library or a directory holding a copy; project.properties is absent or
\* one of LegacyProperties
LegacyMinSdks == { ToText(9), ToText(15), ToText(16), ToText(21) }
LegacyDebuggable == { "unset", "true", "false" }
LegacyLibs == { "absent", "link", "dir" }

LibA == <<"libs", "libA">>
LibB == <<"..", "libB">>

LegacyProperties ==
    { <<>>,
      <<OtherLine("LF"), TargetLine(19, "LF"), RefLine(1, CordovaLibRef, "LF")>>,
      <<TargetLine(19, "LF"), RefLine(1, <<"..", "..", "framework">>, "LF"),
        RefLine(2, LibB, "LF"), RefLine(3, LibA, "LF"), RefLine(4, LibB, "LF")>>,
      <<TargetLine(19, "LF"),
        RefLine(1, <<"..", "cordova-android", "framework">>, "LF"),
        RefLine(3, LibA, "LF"), OtherLine("LF")>>,
      <<TargetLine(19, "LF"), RefLine(1, CordovaLibRef, "none")>>,
      <<TargetLine(19, "CRLF"), RefLine(1, CordovaLibRef, "CRLF"),
        RefLine(2, LibA, "CRLF")>>,
      <<RefLine(1, LibA, "LF")>> }

LegacyProject(minSdk, debuggable, lib, properties) ==
    LET P == <<"proj">>
        d1 == Put(MkdirP(BaseDisk, P), PathJoin(P, <<"AndroidManifest.xml">>),
                  File([package |-> DefaultPackage, activity |-> MainActivity,
                        minSdkVersion |-> minSdk, targetSdkVersion |-> ToText(19),
                        debuggable |-> debuggable]))
        d2 == CASE lib = "absent" -> d1
                [] lib = "link" ->
                    Put(d1, PathJoin(P, <<"CordovaLib">>),
                        Link(<<"..", "..", "framework">>))
                [] lib = "dir" ->
                    Put(MkdirP(d1, PathJoin(P, <<"CordovaLib", "src">>)),
                        PathJoin(P, <<"CordovaLib", "src", "Old.java">>),
                        File(NoData))
    IN  IF properties = <<>> THEN d2
        ELSE Put(d2, PathJoin(P, <<"project.properties">>), File(properties))

LegacyDisks ==
    { LegacyProject(m, g, l, p) :
        m \in LegacyMinSdks, g \in LegacyDebuggable, l \in LegacyLibs,
        p \in LegacyProperties }

\* number of steps of update's callback
NumUpdateSteps == 6

\* update's callback without the floor on the minimum SDK version
UpdateStep_NoFloor(i, d, U) ==
    LET P == U.projectPath
        manifestPath == PathJoin(P, <<"AndroidManifest.xml">>)
    IN  CASE i = 1 ->
                WriteManifest(d, manifestPath,
                              setDebuggable(LoadManifest(d, manifestPath), FALSE))
          [] i = 2 -> copyJsAndLibrary(d, P, U.link)
          [] i = 3 -> copyScripts(d, P)
          [] i = 4 -> copyBuildRules(d, P)
          [] i = 5 -> writeProjectProperties(d, P, TargetApiLevel)
          [] i = 6 -> d

\* step i of update's callback on disk d
UpdateStep(i, d, U) ==
    LET P == U.projectPath
        manifestPath == PathJoin(P, <<"AndroidManifest.xml">>)
        manifest == LoadManifest(d, manifestPath)
    IN  CASE i = 1 ->   \* the floor, setDebuggable(false).write()
                WriteManifest(d, manifestPath,
                    setDebuggable(
                        IF NumberOf(manifest.minSdkVersion) < MIN_SDK_VERSION
                        THEN setMinSdkVersion(manifest, MIN_SDK_VERSION)
                        ELSE manifest,
                        FALSE))
          [] i = 2 -> copyJsAndLibrary(d, P, U.link)
          [] i = 3 -> copyScripts(d, P)
          [] i = 4 -> copyBuildRules(d, P)
          [] i = 5 -> writeProjectProperties(d, P, TargetApiLevel)
          [] i = 6 -> d    \* prepBuildFiles: the project's builder

\* the disk after steps 1..n
RECURSIVE UpdateSteps(_, _, _)
UpdateSteps(n, d, U) ==
    IF n = 0 THEN d ELSE UpdateStep(n, UpdateSteps(n - 1, d, U), U)

\* update(projectPath, options, events), as the first call or on the project
\* of the create or update that has just resolved
UpdateCall ==
    /\ \/ /\ pc = "idle"
          /\ \E projectPath \in UpdatePaths, link \in BOOLEAN :
                uargs' = UpdateArgs(projectPath, link)
          /\ UNCHANGED <<prev, calls>>
       \/ /\ pc = "done"
          /\ op = "create"
          /\ result.state = "resolved"
          /\ calls + 1 < MaxCalls
          /\ LET path == IF cargs.project_path = <<>> THEN <<"CordovaExample">>
                         ELSE cargs.project_path
             IN  /\ uargs' = UpdateArgs(path, cargs.link)
                 /\ prev' = PrevCall("create", path, cargs.link, disk0)
          /\ calls' = calls + 1
       \/ /\ pc = "done"
          /\ op = "update"
          /\ result.state = "resolved"
          /\ calls + 1 < MaxCalls
          /\ \E link \in BOOLEAN :
                uargs' = UpdateArgs(uargs.projectPath, link)
          /\ prev' = PrevCall("update", uargs.projectPath, uargs.link, disk0)
          /\ calls' = calls + 1
    /\ op' = "update"
    /\ pc' = "update_then1"
    /\ result' = Pending
    /\ chain' = Resolved("undefined")
    /\ disk0' = disk
    /\ UNCHANGED <<trace, disk, shellFatal, cargs, locals, input, apiVars>>

\* the callback: loading the manifest or any later step may throw
UpdateThen1 ==
    /\ pc = "update_then1"
    /\ IF CanLoadManifest(disk, PathJoin(uargs.projectPath, <<"AndroidManifest.xml">>))
       THEN \E n \in 0..NumUpdateSteps :
            /\ disk' = UpdateSteps(n, disk, uargs)
            /\ trace' = IF n >= NumUpdateSteps - 1
                        THEN Append(trace, Event("prepBuildFiles", "call", UndefinedOptions))
                        ELSE trace
            /\ chain' = IF n = NumUpdateSteps THEN Resolved("undefined")
                        ELSE Rejected("update step failed")
       ELSE /\ chain' = Rejected("AndroidManifest.xml not found")
            /\ UNCHANGED <<trace, disk>>
    /\ pc' = "update_thenResolve"
    /\ UNCHANGED <<op, result, disk0, shellFatal, cargs, locals, input,
                   updateVars, apiVars>>

\* .thenResolve(projectPath)
UpdateThenResolve ==
    /\ pc = "update_thenResolve"
    /\ result' = IF chain.state = "resolved" THEN Resolved("projectPath") ELSE chain
    /\ pc' = "done"
    /\ UNCHANGED <<op, chain, trace, createVars, input, apiVars>>

(***************************************************************************)
(* Api.js: the collaborators' asynchronous operations                      *)
(***************************************************************************)
NoExt == [name |-> "-", state |-> "none"]
Running(name) == [name |-> name, state |-> "running"]

\* the operation under way succeeds or fails
ExtSettle ==
    /\ ext.state = "running"
    /\ \E outcome \in {"ok", "fail"} :
        /\ ext' = [ext EXCEPT !.state = outcome]
        /\ trace' = Append(trace, Event(ext.name, outcome, UndefinedOptions))
    /\ UNCHANGED <<op, pc, result, chain, createVars, input, android_studio,
                   aargs, installOptions, callOptions, pmOptions, ret>>

\* options objects the callers of build, run and clean pass
CallerOptions ==
    {UndefinedOptions, Options(TRUE, FALSE, FALSE), Options(TRUE, TRUE, FALSE)}

\* an installOptions/uninstallOptions object (defined = FALSE: undefined;
\* hasVariables = FALSE: no variables property)
PluginOptions(defined, hasVariables, variables, usePlatformWww, studio) ==
    [defined |-> defined, hasVariables |-> hasVariables, variables |-> variables,
     usePlatformWww |-> usePlatformWww, android_studio |-> studio]
NoVariables == [x \in {} |-> ""]
UndefinedPluginOptions == PluginOptions(FALSE, FALSE, NoVariables, FALSE, FALSE)

VariableNames == {"PACKAGE_NAME", "API_KEY"}
VariableValues == {"", "com.caller.app"}
VariableMaps == UNION {[S -> VariableValues] : S \in SUBSET VariableNames}

InstallOptionsTried ==
    {UndefinedPluginOptions, PluginOptions(TRUE, FALSE, NoVariables, FALSE, FALSE)}
        \cup {PluginOptions(TRUE, TRUE, v, FALSE, FALSE) : v \in VariableMaps}

UninstallOptionsTried ==
    {UndefinedPluginOptions}
        \cup {PluginOptions(TRUE, FALSE, NoVariables, w, FALSE) : w \in BOOLEAN}

\* arguments of a call: the plugin's number of <framework> elements and the
\* plugin options (addPlugin, removePlugin), what project.isClean() answers
\* (addPlugin), the side of the merge (build), the options (build, run, clean)
ApiArgs(frameworks, options, isClean, variant, callerOptions) ==
    [frameworks |-> frameworks, options |-> options, isClean |-> isClean,
     variant |-> variant, callerOptions |-> callerOptions]
NoApiArgs == ApiArgs(0, UndefinedPluginOptions, TRUE, "-", UndefinedOptions)

\* project.getPackageName(): the package id of the project's manifest
getPackageName == "io.cordova.hello"

\* AndroidStudio.isAndroidStudioProject(self.root): the probe the constructor
\* made, repeated on the same root
isAndroidStudioProject == android_studio

(***************************************************************************)
(* Api.prototype.clean                                                     *)
(***************************************************************************)
\* clean(cleanOptions) is called; back is the callback that waits for it
\* ("done": the caller of the Api)
CleanBegin(cleanOptions, back) ==
    /\ callOptions' = cleanOptions
    /\ ret' = back
    /\ ext' = Running("check_reqs")
    /\ trace' = Append(trace, Event("check_reqs", "start", UndefinedOptions))
    /\ pc' = "clean_then1"

CleanCall ==
    /\ pc = "idle"
    /\ \E cleanOptions \in CallerOptions :
        /\ CleanBegin(cleanOptions, "done")
        /\ aargs' = ApiArgs(0, UndefinedPluginOptions, TRUE, "-", cleanOptions)
    /\ op' = "clean"
    /\ result' = Pending
    /\ UNCHANGED <<chain, createVars, input, android_studio, installOptions, pmOptions>>

\* callback of check_reqs.run(): build.runClean
CleanThen1 ==
    /\ pc = "clean_then1"
    /\ ext.state \in {"ok", "fail"}
    /\ IF ext.state = "ok"
       THEN /\ ext' = Running("runClean")
            /\ trace' = Append(trace, Event("runClean", "start", callOptions))
            /\ UNCHANGED chain
       ELSE /\ ext' = NoExt
            /\ chain' = Rejected(ext.name)
            /\ UNCHANGED trace
    /\ pc' = "clean_then2"
    /\ UNCHANGED <<op, result, createVars, input, android_studio, aargs,
                   installOptions, callOptions, pmOptions, ret>>

\* CleanThen2 removing the web assets whatever runClean did
CleanThen2_IgnoresFailure ==
    /\ pc = "clean_then2"
    /\ ext.state # "running"
    /\ CASE ext.state \in {"ok", "fail"} ->
                /\ ext' = Running("prepare.clean")
                /\ trace' = Append(trace, Event("prepare.clean", "start", callOptions))
                /\ UNCHANGED chain
         [] ext.state = "none" ->
                UNCHANGED <<ext, chain, trace>>
    /\ pc' = "clean_settle"
    /\ UNCHANGED <<op, result, createVars, input, android_studio, aargs,
                   installOptions, callOptions, pmOptions, ret>>

\* callback of runClean: prepare.clean
CleanThen2 ==
    /\ pc = "clean_then2"
    /\ ext.state # "running"
    /\ CASE ext.state = "ok" ->
                /\ ext' = Running("prepare.clean")
                /\ trace' = Append(trace, Event("prepare.clean", "start", callOptions))
                /\ UNCHANGED chain
         [] ext.state = "fail" ->
                /\ ext' = NoExt
                /\ chain' = Rejected(ext.name)
                /\ UNCHANGED trace
         [] ext.state = "none" ->
                UNCHANGED <<ext, chain, trace>>
    /\ pc' = "clean_settle"
    /\ UNCHANGED <<op, result, createVars, input, android_studio, aargs,
                   installOptions, callOptions, pmOptions, ret>>

\* the promise clean returned settles
CleanSettle ==
    /\ pc = "clean_settle"
    /\ ext.state # "running"
    /\ LET outcome == CASE ext.state = "ok" -> Resolved("undefined")
                        [] ext.state = "fail" -> Rejected(ext.name)
                        [] ext.state = "none" -> chain
       IN  IF ret = "done"
           THEN result' = outcome /\ UNCHANGED chain
           ELSE chain' = outcome /\ UNCHANGED result
    /\ ext' = NoExt
    /\ pc' = ret
    /\ UNCHANGED <<op, trace, createVars, input, android_studio, aargs,
                   installOptions, callOptions, pmOptions, ret>>

(***************************************************************************)
(* Api.prototype.build, Api.prototype.run                                  *)
(***************************************************************************)
\* The source of build holds both sides of an unresolved merge: "HEAD" sets
\* buildOptions.studio for an Android Studio project before the requirement
\* check, "theirs" does not. A build of the file has one side or the other.
BuildVariants == {"HEAD", "theirs"}

BuildCall ==
    /\ pc = "idle"
    /\ \E buildOptions \in CallerOptions, variant \in BuildVariants :
        /\ aargs' = ApiArgs(0, UndefinedPluginOptions, TRUE, variant, buildOptions)
        /\ IF variant = "HEAD" /\ android_studio /\ ~buildOptions.defined
           THEN \* buildOptions.studio = true on undefined
                /\ result' = Thrown("TypeError")
                /\ pc' = "done"
                /\ callOptions' = buildOptions
                /\ UNCHANGED <<ext, trace>>
           ELSE /\ callOptions' =
                    IF variant = "HEAD" /\ android_studio
                    THEN [buildOptions EXCEPT !.studio = TRUE]
                    ELSE buildOptions
                /\ ext' = Running("check_reqs")
                /\ trace' = Append(trace, Event("check_reqs", "start", UndefinedOptions))
                /\ result' = Pending
                /\ pc' = "build_then1"
    /\ op' = "build"
    /\ UNCHANGED <<chain, createVars, input, android_studio, installOptions,
                   pmOptions, ret>>

\* BuildThen1 building whatever the requirement check found
BuildThen1_IgnoresCheck ==
    /\ pc = "build_then1"
    /\ ext.state \in {"ok", "fail"}
    /\ ext' = Running("build.run")
    /\ trace' = Append(trace, Event("build.run", "start", callOptions))
    /\ UNCHANGED chain
    /\ pc' = "build_then2"
    /\ UNCHANGED <<op, result, createVars, input, android_studio, aargs,
                   installOptions, callOptions, pmOptions, ret>>

\* callback of check_reqs.run(): build.run
BuildThen1 ==
    /\ pc = "build_then1"
    /\ ext.state \in {"ok", "fail"}
    /\ IF ext.state = "ok"
       THEN /\ ext' = Running("build.run")
            /\ trace' = Append(trace, Event("build.run", "start", callOptions))
            /\ UNCHANGED chain
       ELSE /\ ext' = NoExt
            /\ chain' = Rejected(ext.name)
            /\ UNCHANGED trace
    /\ pc' = "build_then2"
    /\ UNCHANGED <<op, result, createVars, input, android_studio, aargs,
                   installOptions, callOptions, pmOptions, ret>>

\* callback of build.run: the build results become the list of artifacts
BuildThen2 ==
    /\ pc = "build_then2"
    /\ ext.state # "running"
    /\ result' = CASE ext.state = "ok" -> Resolved("artifacts")
                   [] ext.state = "fail" -> Rejected(ext.name)
                   [] ext.state = "none" -> chain
    /\ ext' = NoExt
    /\ pc' = "done"
    /\ UNCHANGED <<op, chain, trace, createVars, input, android_studio, aargs,
                   installOptions, callOptions, pmOptions, ret>>

RunCall ==
    /\ pc = "idle"
    /\ \E runOptions \in CallerOptions :
        /\ callOptions' = runOptions
        /\ aargs' = ApiArgs(0, UndefinedPluginOptions, TRUE, "-", runOptions)
    /\ ext' = Running("check_reqs")
    /\ trace' = Append(trace, Event("check_reqs", "start", UndefinedOptions))
    /\ op' = "run"
    /\ result' = Pending
    /\ pc' = "run_then1"
    /\ UNCHANGED <<chain, createVars, input, android_studio, installOptions,
                   pmOptions, ret>>

\* callback of check_reqs.run(): run.run
RunThen1 ==
    /\ pc = "run_then1"
    /\ ext.state \in {"ok", "fail"}
    /\ IF ext.state = "ok"
       THEN /\ ext' = Running("run.run")
            /\ trace' = Append(trace, Event("run.run", "start", callOptions))
            /\ UNCHANGED chain
       ELSE /\ ext' = NoExt
            /\ chain' = Rejected(ext.name)
            /\ UNCHANGED trace
    /\ pc' = "run_settle"
    /\ UNCHANGED <<op, result, createVars, input, android_studio, aargs,
                   installOptions, callOptions, pmOptions, ret>>

\* the promise run returned settles
RunSettle ==
    /\ pc = "run_settle"
    /\ ext.state # "running"
    /\ result' = CASE ext.state = "ok" -> Resolved("undefined")
                   [] ext.state = "fail" -> Rejected(ext.name)
                   [] ext.state = "none" -> chain
    /\ ext' = NoExt
    /\ pc' = "done"
    /\ UNCHANGED <<op, chain, trace, createVars, input, android_studio, aargs,
                   installOptions, callOptions, pmOptions, ret>>

(***************************************************************************)
(* Api.prototype.addPlugin                                                 *)
(***************************************************************************)
\* installOptions after the synchronous part of addPlugin
PrepareInstallOptions_Overwrites(options, studio) ==
    LET variables == IF options.defined /\ options.hasVariables
                     THEN options.variables ELSE NoVariables
    IN  PluginOptions(TRUE, TRUE,
            [n \in DOMAIN variables \cup {"PACKAGE_NAME"} |->
                IF n = "PACKAGE_NAME" THEN getPackageName ELSE variables[n]],
            options.defined /\ options.usePlatformWww,
            studio)

PrepareInstallOptions(options, studio) ==
    LET variables == IF options.defined /\ options.hasVariables
                     THEN options.variables ELSE NoVariables
        missing == "PACKAGE_NAME" \notin DOMAIN variables
                       \/ variables["PACKAGE_NAME"] = ""
    IN  PluginOptions(TRUE, TRUE,
            IF missing
            THEN [n \in DOMAIN variables \cup {"PACKAGE_NAME"} |->
                    IF n = "PACKAGE_NAME" THEN getPackageName ELSE variables[n]]
            ELSE variables,
            options.defined /\ options.usePlatformWww,
            studio)

\* the condition of the implicit clean (CB-11964)
NeedsClean_IgnoresLayout(studioProject, isClean) == ~isClean

NeedsClean(studioProject, isClean) == ~studioProject /\ ~isClean

\* the options of the implicit clean
ImplicitCleanOptions == Options(TRUE, TRUE, FALSE)

AddPluginCall ==
    /\ pc = "idle"
    /\ \E frameworks \in 0..MaxFrameworks, options \in InstallOptionsTried,
          isClean \in BOOLEAN :
        /\ aargs' = ApiArgs(frameworks, options, isClean, "-", UndefinedOptions)
        /\ installOptions' = PrepareInstallOptions(options, android_studio)
    /\ op' = "addPlugin"
    /\ result' = Pending
    /\ chain' = Resolved("undefined")
    /\ pc' = "addPlugin_then1"
    /\ UNCHANGED <<trace, createVars, input, android_studio, callOptions,
                   pmOptions, ext, ret>>

\* first callback: the implicit clean
AddPluginThen1 ==
    /\ pc = "addPlugin_then1"
    /\ IF NeedsClean(isAndroidStudioProject, aargs.isClean)
       THEN /\ CleanBegin(ImplicitCleanOptions, "addPlugin_then2")
            /\ UNCHANGED chain
       ELSE /\ chain' = Resolved("undefined")
            /\ pc' = "addPlugin_then2"
            /\ UNCHANGED <<trace, callOptions, ext, ret>>
    /\ UNCHANGED <<op, result, createVars, input, android_studio, aargs,
                   installOptions, pmOptions>>

\* second callback: PluginManager addPlugin
AddPluginThen2 ==
    /\ pc = "addPlugin_then2"
    /\ IF chain.state = "resolved"
       THEN /\ ext' = Running("pm.addPlugin")
            /\ trace' = Append(trace, Event("pm.addPlugin", "start", UndefinedOptions))
            /\ pmOptions' = installOptions
            /\ UNCHANGED chain
       ELSE UNCHANGED <<ext, trace, pmOptions, chain>>
    /\ pc' = "addPlugin_then3"
    /\ UNCHANGED <<op, result, createVars, input, android_studio, aargs,
                   installOptions, callOptions, ret>>

\* FrameworksCallback regenerating the build files for every plugin
FrameworksCallback_Always(next) ==
    /\ ext.state # "running"
    /\ CASE ext.state = "ok" ->
                /\ trace' = Append(trace,
                       Event("prepBuildFiles", "call", UndefinedOptions))
                /\ \E throws \in BOOLEAN :
                       chain' = IF throws THEN Rejected("prepBuildFiles")
                                ELSE Resolved("undefined")
         [] ext.state = "fail" ->
                /\ chain' = Rejected(ext.name)
                /\ UNCHANGED trace
         [] ext.state = "none" ->
                UNCHANGED <<chain, trace>>
    /\ ext' = NoExt
    /\ pc' = next
    /\ UNCHANGED <<op, result, createVars, input, android_studio, aargs,
                   installOptions, callOptions, pmOptions, ret>>

\* the callback that follows the plugin manager in addPlugin and removePlugin:
\* build files are regenerated if the plugin has a <framework>
FrameworksCallback(next) ==
    /\ ext.state # "running"
    /\ CASE ext.state = "ok" ->
                IF aargs.frameworks = 0
                THEN /\ chain' = Resolved("undefined")
                     /\ UNCHANGED trace
                ELSE /\ trace' = Append(trace,
                            Event("prepBuildFiles", "call", UndefinedOptions))
                     /\ \E throws \in BOOLEAN :
                            chain' = IF throws THEN Rejected("prepBuildFiles")
                                     ELSE Resolved("undefined")
         [] ext.state = "fail" ->
                /\ chain' = Rejected(ext.name)
                /\ UNCHANGED trace
         [] ext.state = "none" ->
                UNCHANGED <<chain, trace>>
    /\ ext' = NoExt
    /\ pc' = next
    /\ UNCHANGED <<op, result, createVars, input, android_studio, aargs,
                   installOptions, callOptions, pmOptions, ret>>

AddPluginThen3 ==
    /\ pc = "addPlugin_then3"
    /\ FrameworksCallback("addPlugin_thenResolve")

\* AddPluginThenResolve resolving whatever the chain brought
AddPluginThenResolve_Swallows ==
    /\ pc = "addPlugin_thenResolve"
    /\ result' = Resolved("true")
    /\ pc' = "done"
    /\ UNCHANGED <<op, chain, trace, createVars, input, apiVars>>

\* .thenResolve(true)
AddPluginThenResolve ==
    /\ pc = "addPlugin_thenResolve"
    /\ result' = IF chain.state = "resolved" THEN Resolved("true") ELSE chain
    /\ pc' = "done"
    /\ UNCHANGED <<op, chain, trace, createVars, input, apiVars>>

(***************************************************************************)
(* Api.prototype.removePlugin                                              *)
(***************************************************************************)
RemovePluginCall ==
    /\ pc = "idle"
    /\ \E frameworks \in 0..MaxFrameworks, options \in UninstallOptionsTried :
        /\ aargs' = ApiArgs(frameworks, options, TRUE, "-", UndefinedOptions)
        /\ pmOptions' =
                IF options.defined /\ options.usePlatformWww /\ android_studio
                THEN [options EXCEPT !.usePlatformWww = FALSE,
                                     !.android_studio = TRUE]
                ELSE options
    /\ ext' = Running("pm.removePlugin")
    /\ trace' = Append(trace, Event("pm.removePlugin", "start", UndefinedOptions))
    /\ op' = "removePlugin"
    /\ result' = Pending
    /\ pc' = "removePlugin_then1"
    /\ UNCHANGED <<chain, createVars, input, android_studio, installOptions,
                   callOptions, ret>>

RemovePluginThen1 ==
    /\ pc = "removePlugin_then1"
    /\ FrameworksCallback("removePlugin_thenResolve")

\* .thenResolve(true)
RemovePluginThenResolve ==
    /\ pc = "removePlugin_thenResolve"
    /\ result' = IF chain.state = "resolved" THEN Resolved("true") ELSE chain
    /\ pc' = "done"
    /\ UNCHANGED <<op, chain, trace, createVars, input, apiVars>>

(***************************************************************************)
(* Specification                                                           *)
(***************************************************************************)
vars == <<op, pc, result, chain, trace, disk, disk0, shellFatal, input, cargs,
          locals, android_studio, aargs, installOptions, callOptions, pmOptions,
          ext, ret, uargs, prev, calls>>

Init ==
    /\ op = "idle"
    /\ pc = "idle"
    /\ result = Pending
    /\ chain = Pending
    /\ trace = <<>>
    /\ disk \in InitialDisks
    /\ disk0 = disk
    /\ shellFatal = FALSE
    /\ input = <<>>
    /\ cargs = NoCreateArgs
    /\ locals = NoLocals
    /\ android_studio \in BOOLEAN
    /\ aargs = NoApiArgs
    /\ installOptions = UndefinedPluginOptions
    /\ callOptions = UndefinedOptions
    /\ pmOptions = UndefinedPluginOptions
    /\ ext = NoExt
    /\ ret = "done"
    /\ uargs = NoUpdateArgs
    /\ prev = NoPrev
    /\ calls = 0

Next ==
    \/ CallValidatePackageName
    \/ CallValidateProjectName
    \/ CreateCall
    \/ CreateThen1
    \/ CreateThen2
    \/ CreateThenResolve
    \/ ExtSettle
    \/ CleanCall
    \/ CleanThen1
    \/ CleanThen2
    \/ CleanSettle
    \/ BuildCall
    \/ BuildThen1
    \/ BuildThen2
    \/ RunCall
    \/ RunThen1
    \/ RunSettle
    \/ AddPluginCall
    \/ AddPluginThen1
    \/ AddPluginThen2
    \/ AddPluginThen3
    \/ AddPluginThenResolve
    \/ RemovePluginCall
    \/ RemovePluginThen1
    \/ RemovePluginThenResolve
    \/ UpdateCall
    \/ UpdateThen1
    \/ UpdateThenResolve

Spec == Init /\ [][Next]_vars

\* update run on the projects of an earlier release
InitUpdate ==
    /\ op = "idle"
    /\ pc = "idle"
    /\ result = Pending
    /\ chain = Pending
    /\ trace = <<>>
    /\ disk \in LegacyDisks
    /\ disk0 = disk
    /\ shellFatal = FALSE
    /\ input = <<>>
    /\ cargs = NoCreateArgs
    /\ locals = NoLocals
    /\ android_studio = FALSE
    /\ aargs = NoApiArgs
    /\ installOptions = UndefinedPluginOptions
    /\ callOptions = UndefinedOptions
    /\ pmOptions = UndefinedPluginOptions
    /\ ext = NoExt
    /\ ret = "done"
    /\ uargs = NoUpdateArgs
    /\ prev = NoPrev
    /\ calls = 0

NextUpdate ==
    \/ UpdateCall
    \/ UpdateThen1
    \/ UpdateThenResolve

SpecUpdate == InitUpdate /\ [][NextUpdate]_vars

(***************************************************************************)
(* Properties of create                                                    *)
(***************************************************************************)
\* the destination of the create call under way
Destination ==
    IF cargs.project_path = <<>> THEN <<"CordovaExample">> ELSE cargs.project_path

\* it was on the disk when create was called
DestinationExisted == PathResolve(Destination) \in DOMAIN disk0

\* a display name that is empty, reserved or starts with a digit
BadProjectName(name) ==
    \/ name = <<>>
    \/ name = CordovaActivity
    \/ Len(name) >= 1 /\ name[1] \in Digits

\* the display name of the create call under way, sanitized
SanitizedName ==
    IF cargs.name = <<>> THEN CordovaExample ELSE Sanitize(cargs.name)

\* the package identifier of the create call under way
PackageOfCall ==
    IF cargs.packageName = <<>> THEN DefaultPackage ELSE cargs.packageName

\* C1: create called on a destination that exists on disk returns a rejected
\* promise and changes nothing on the disk.
C1_ExistingDestinationRejected ==
    (op = "create" /\ DestinationExisted) =>
        /\ disk = disk0
        /\ result.state # "resolved"
        /\ pc = "done" => result.state = "rejected"

\* C2: create on a destination that does not exist, with a sanitized display
\* name that is empty, "CordovaActivity" or starts with a digit, returns a
\* promise that is rejected, and never changes the disk.
C2_BadProjectNameRejected ==
    (op = "create" /\ ~DestinationExisted /\ BadProjectName(SanitizedName)) =>
        /\ disk = disk0
        /\ result.state # "resolved"
        /\ pc = "done" => result.state = "rejected"

\* C3: create on a destination that does not exist, with a package identifier
\* that validatePackageName rejects, returns a promise rejected with that
\* validation error; no later step of the chain runs and the disk is untouched.
C3_BadPackageNameRejected ==
    (op = "create" /\ ~DestinationExisted
        /\ validatePackageName(PackageOfCall).state = "rejected") =>
        /\ disk = disk0
        /\ shellFatal = FALSE
        /\ trace = <<>>
        /\ result.state # "resolved"
        /\ pc = "done" => result = validatePackageName(PackageOfCall)

C3_Witness ==
    /\ op = "create" /\ pc = "done" /\ ~DestinationExisted
    /\ ClassRegexTest(PackageOfCall)
    /\ result = Rejected("\"class\" is a reserved word")
    /\ disk = disk0

(***************************************************************************)
(* Properties of validatePackageName and validateProjectName               *)
(***************************************************************************)
\* the pieces of s between its dots
RECURSIVE SplitAtDots(_, _)
SplitAtDots(cur, rest) ==
    IF rest = <<>> THEN <<cur>>
    ELSE IF Head(rest) = "." THEN <<cur>> \o SplitAtDots(<<>>, Tail(rest))
    ELSE SplitAtDots(Append(cur, Head(rest)), Tail(rest))

IsIdentifier(seg) ==
    /\ Len(seg) >= 1
    /\ IsLetter(seg[1])
    /\ \A i \in 2..Len(seg) : IsWordChar(seg[i])

\* the grammar [a-zA-Z][a-zA-Z0-9_]+(\.[a-zA-Z][a-zA-Z0-9_]*)+ read as: two
\* or more identifiers joined by dots, the first of two characters or more
MatchesGrammar(s) ==
    LET segs == SplitAtDots(<<>>, s)
    IN  /\ Len(segs) >= 2
        /\ Len(segs[1]) >= 2
        /\ \A i \in 1..Len(segs) : IsIdentifier(segs[i])

\* in an identifier of the grammar the words are the pieces between the dots
HasWordClassAnyCase(s) ==
    \E i \in 1..Len(SplitAtDots(<<>>, s)) :
        LET w == SplitAtDots(<<>>, s)[i]
        IN  /\ Len(w) = 5
            /\ w[1] \in {"c", "C"} /\ w[2] \in {"l", "L"} /\ w[3] \in {"a", "A"}
            /\ w[4] \in {"s", "S"} /\ w[5] \in {"s", "S"}

HasWordClassOrCapitalized(s) ==
    \E i \in 1..Len(SplitAtDots(<<>>, s)) :
        SplitAtDots(<<>>, s)[i] \in
            {<<"c", "l", "a", "s", "s">>, <<"C", "l", "a", "s", "s">>}

\* C4 as claimed: validatePackageName rejects what is outside the grammar,
\* rejects what is inside it and holds the word "class" in any letter case,
\* and resolves for everything else.
C4_RejectsClassInAnyCase ==
    (op = "validatePackageName" /\ pc = "done") =>
        IF MatchesGrammar(input) /\ ~HasWordClassAnyCase(input)
        THEN result.state = "resolved"
        ELSE result.state = "rejected"

\* C4 amended: validatePackageName rejects what is outside the grammar,
\* rejects what is inside it and holds the word "class" or "Class", and
\* resolves for everything else, other spellings such as "CLASS" included.
C4_RejectsClassAndCapitalized ==
    (op = "validatePackageName" /\ pc = "done") =>
        IF MatchesGrammar(input) /\ ~HasWordClassOrCapitalized(input)
        THEN result.state = "resolved"
        ELSE result.state = "rejected"

C4_Witness ==
    /\ op = "validatePackageName" /\ pc = "done"
    /\ MatchesGrammar(input)
    /\ HasWordClassAnyCase(input) /\ ~HasWordClassOrCapitalized(input)
    /\ result.state = "resolved"

\* C5: validateProjectName returns a rejected promise exactly when the name
\* is empty, is "CordovaActivity" or starts with a digit, and a resolved
\* promise for every other name.
C5_ProjectNameRejectedExactlyWhenBad ==
    (op = "validateProjectName" /\ pc = "done") =>
        IF BadProjectName(input)
        THEN result.state = "rejected"
        ELSE result.state = "resolved"

C5_Witness ==
    /\ op = "validateProjectName" /\ pc = "done"
    /\ Len(input) = MaxNameLen /\ input[1] \in Digits
    /\ result = Rejected("Project name must not begin with a number")

(***************************************************************************)
(* Properties of the Api methods                                           *)
(***************************************************************************)
\* positions of the trace that hold event ev in phase ph
At(ev, ph) == {i \in 1..Len(trace) : trace[i].ev = ev /\ trace[i].ph = ph}

\* every ev2/ph2 comes after some ev1/ph1
Precedes(ev1, ph1, ev2, ph2) ==
    \A i \in At(ev2, ph2) : \E j \in At(ev1, ph1) : j < i

PluginManagerStep == IF op = "addPlugin" THEN "pm.addPlugin" ELSE "pm.removePlugin"

\* C6: in an addPlugin or removePlugin call whose plugin-manager step
\* succeeds, prepBuildFiles is invoked once if the plugin declares a framework
\* and never if it declares none, and only after the plugin manager is done.
C6_BuildFilesRegeneratedOncePerFrameworkPlugin ==
    op \in {"addPlugin", "removePlugin"} =>
        /\ Precedes(PluginManagerStep, "ok", "prepBuildFiles", "call")
        /\ Cardinality(At("prepBuildFiles", "call")) <= 1
        /\ aargs.frameworks = 0 => At("prepBuildFiles", "call") = {}
        /\ (pc = "done" /\ At(PluginManagerStep, "ok") # {}) =>
                Cardinality(At("prepBuildFiles", "call")) =
                    IF aargs.frameworks >= 1 THEN 1 ELSE 0

C6_Witness ==
    /\ op = "removePlugin" /\ pc = "done"
    /\ aargs.frameworks = MaxFrameworks
    /\ At("pm.removePlugin", "ok") # {}
    /\ Cardinality(At("prepBuildFiles", "call")) = 1
    /\ result = Resolved("true")

\* the caller of addPlugin gave a PACKAGE_NAME that is not empty
CallerGavePackageName ==
    /\ aargs.options.defined
    /\ aargs.options.hasVariables
    /\ "PACKAGE_NAME" \in DOMAIN aargs.options.variables
    /\ aargs.options.variables["PACKAGE_NAME"] # ""

\* C7: the variables addPlugin hands to the plugin manager hold a
\* PACKAGE_NAME: the caller's if the caller gave one that is not empty, the
\* project's package name otherwise, whatever the form of installOptions.
C7_PackageNamePassedToPluginManager ==
    (op = "addPlugin" /\ At("pm.addPlugin", "start") # {}) =>
        /\ pmOptions.defined /\ pmOptions.hasVariables
        /\ "PACKAGE_NAME" \in DOMAIN pmOptions.variables
        /\ pmOptions.variables["PACKAGE_NAME"] =
                IF CallerGavePackageName
                THEN aargs.options.variables["PACKAGE_NAME"]
                ELSE getPackageName

C7_Witness ==
    /\ op = "addPlugin" /\ At("pm.addPlugin", "start") # {}
    /\ ~aargs.options.defined
    /\ pmOptions.variables["PACKAGE_NAME"] = getPackageName

CleanStages == {"check_reqs", "runClean", "prepare.clean"}

\* a stage of clean was started
CleanRan == \E i \in 1..Len(trace) : trace[i].ev \in CleanStages

\* a stage of clean failed
CleanFailed ==
    \E i \in 1..Len(trace) : trace[i].ev \in CleanStages /\ trace[i].ph = "fail"

\* C8: addPlugin cleans first if and only if the project is not in the
\* Android Studio layout and is not clean; that clean gets noPrepare, is over
\* before the plugin manager starts, and keeps the plugin manager from being
\* called when it fails.
C8_ImplicitCleanBeforePluginManager ==
    op = "addPlugin" =>
        /\ CleanRan => (~android_studio /\ ~aargs.isClean)
        /\ (pc # "addPlugin_then1" /\ ~android_studio /\ ~aargs.isClean) => CleanRan
        /\ CleanRan => (callOptions.defined /\ callOptions.noPrepare)
        /\ \A i \in At("runClean", "start") \cup At("prepare.clean", "start") :
                trace[i].opt.defined /\ trace[i].opt.noPrepare
        /\ CleanRan => Precedes("prepare.clean", "ok", "pm.addPlugin", "start")
        /\ CleanFailed => At("pm.addPlugin", "start") = {}
        /\ (CleanFailed /\ pc = "done") => result.state = "rejected"

C8_Witness ==
    /\ op = "addPlugin" /\ pc = "done"
    /\ ~android_studio /\ ~aargs.isClean
    /\ At("prepare.clean", "ok") # {}
    /\ At("pm.addPlugin", "ok") # {}
    /\ result = Resolved("true")

\* the operation build, run and clean delegate to once the check has passed
DelegatedStep ==
    CASE op = "build" -> "build.run"
      [] op = "run" -> "run.run"
      [] op = "clean" -> "runClean"

\* C9: build, run and clean start with the requirement check and start the
\* delegated operation only once the check has succeeded; if the check fails
\* the delegated operation is never invoked and the promise is rejected with
\* the check's error.
C9_RequirementCheckFirst ==
    op \in {"build", "run", "clean"} =>
        /\ trace # <<>> => trace[1] = Event("check_reqs", "start", UndefinedOptions)
        /\ Precedes("check_reqs", "ok", DelegatedStep, "start")
        /\ At("check_reqs", "fail") # {} =>
                /\ At(DelegatedStep, "start") = {}
                /\ result.state # "resolved"
                /\ pc = "done" => result = Rejected("check_reqs")

C9_Witness ==
    /\ op = "build" /\ pc = "done"
    /\ At("check_reqs", "fail") # {}
    /\ At("build.run", "start") = {}
    /\ result = Rejected("check_reqs")

\* C10: clean runs the requirement check, then runClean, then prepare.clean,
\* both with the caller's options; prepare.clean starts only once runClean has
\* succeeded, and if runClean fails prepare.clean is never invoked and the
\* promise is rejected.
C10_CleanStagesInOrder ==
    op = "clean" =>
        /\ Precedes("check_reqs", "ok", "runClean", "start")
        /\ Precedes("runClean", "ok", "prepare.clean", "start")
        /\ \A i \in At("runClean", "start") \cup At("prepare.clean", "start") :
                trace[i].opt = aargs.callerOptions
        /\ \A ev \in CleanStages : Cardinality(At(ev, "start")) <= 1
        /\ At("runClean", "fail") # {} =>
                /\ At("prepare.clean", "start") = {}
                /\ result.state # "resolved"
                /\ pc = "done" => result = Rejected("runClean")
        /\ (pc = "done" /\ result.state = "resolved") =>
                At("prepare.clean", "ok") # {}

C10_Witness ==
    /\ op = "clean" /\ pc = "done"
    /\ aargs.callerOptions.defined
    /\ At("runClean", "ok") # {}
    /\ At("prepare.clean", "ok") # {}
    /\ result = Resolved("undefined")

(***************************************************************************)
(* Properties of update                                                    *)
(***************************************************************************)
\* the manifest update loads: AndroidManifest.xml in the project directory
UpdateManifestPath == PathJoin(uargs.projectPath, <<"AndroidManifest.xml">>)
UpdateManifest == LoadManifest(disk, UpdateManifestPath)
UpdateManifest0 == LoadManifest(disk0, UpdateManifestPath)

UpdateSucceeded == op = "update" /\ pc = "done" /\ result.state = "resolved"

\* the update under way comes right after an update with the same options
SecondUpdate ==
    /\ prev.op = "update"
    /\ prev.path = uargs.projectPath
    /\ prev.link = uargs.link

\* C11: after a successful update the manifest has debuggable false and a
\* minimum SDK version of at least 16: a minimum below 16 became exactly 16,
\* a minimum of 16 or more is what it was; and a second update made right
\* after the first with the same options leaves debuggable, minimum SDK
\* version, package id and activity name as the first left them.
C11_UpdateSecuresManifest ==
    UpdateSucceeded =>
        /\ UpdateManifest.debuggable = "false"
        /\ NumberOf(UpdateManifest.minSdkVersion) >= 16
        /\ NumberOf(UpdateManifest0.minSdkVersion) < 16
            => UpdateManifest.minSdkVersion = <<"1", "6">>
        /\ NumberOf(UpdateManifest0.minSdkVersion) >= 16
            => UpdateManifest.minSdkVersion = UpdateManifest0.minSdkVersion
        /\ SecondUpdate =>
            /\ UpdateManifest.debuggable = UpdateManifest0.debuggable
            /\ UpdateManifest.minSdkVersion = UpdateManifest0.minSdkVersion
            /\ UpdateManifest.package = UpdateManifest0.package
            /\ UpdateManifest.activity = UpdateManifest0.activity

\* a second update has succeeded on a project whose manifest the first had
\* found debuggable and with a minimum SDK version of 9
C11_Witness ==
    /\ UpdateSucceeded
    /\ SecondUpdate
    /\ LoadManifest(prev.disk0, UpdateManifestPath).minSdkVersion = <<"9">>
    /\ LoadManifest(prev.disk0, UpdateManifestPath).debuggable = "true"
    /\ UpdateManifest.minSdkVersion = <<"1", "6">>

(***************************************************************************)
(* Properties of writeProjectProperties                                    *)
(***************************************************************************)
PropertiesPath == PathJoin(uargs.projectPath, <<"project.properties">>)

IsRefLine(l) == l.key = "ref"

\* the reference lines of the project.properties the update wrote
WrittenRefs == SelectSeq(disk[PathResolve(PropertiesPath)].data, IsRefLine)

\* the paths the project.properties listed when update was called
PriorRefs ==
    IF ExistsSync(disk0, PropertiesPath)
    THEN RefValues(disk0[PathResolve(PropertiesPath)].data)
    ELSE <<>>

\* a path to the shared library: CordovaLib, a path ending in
\* cordova-android/framework, or ../[../]framework
IsSharedLibraryPath(p) ==
    \/ p = <<"CordovaLib">>
    \/ /\ Len(p) >= 2
       /\ p[Len(p) - 1] = "cordova-android"
       /\ p[Len(p)] = "framework"
    \/ /\ Len(p) >= 2
       /\ p[Len(p)] = "framework"
       /\ \A i \in 1..(Len(p) - 1) : p[i] = ".."

IsOtherPath(p) == ~IsSharedLibraryPath(p)

\* C12: in the project.properties that writeProjectProperties has written,
\* whatever the file held before, the library references are numbered 1..n
\* without a gap, no path is listed twice, reference 1 is CordovaLib, no
\* later reference is a path to the shared library, and the other paths
\* listed before follow in the order they first had.
C12_ReferencesRenumbered ==
    UpdateSucceeded =>
        LET refs == WrittenRefs
        IN  /\ \A i \in 1..Len(refs) : refs[i].n = i
            /\ \A i, j \in 1..Len(refs) : i # j => refs[i].value # refs[j].value
            /\ Len(refs) >= 1
            /\ refs[1].value = <<"CordovaLib">>
            /\ \A i \in 2..Len(refs) : IsOtherPath(refs[i].value)
            /\ [i \in 1..(Len(refs) - 1) |-> refs[i + 1].value]
                    = Dedup(<<>>, SelectSeq(PriorRefs, IsOtherPath))

(***************************************************************************)
(* Properties of the manifest and the library of a created project         *)
(***************************************************************************)
CreateSucceeded == op = "create" /\ pc = "done" /\ result.state = "resolved"

\* the manifest of the project at the destination of the create call
CreatedManifestPath ==
    PathJoin(Destination, <<"app", "src", "main", "AndroidManifest.xml">>)
CreatedManifest == LoadManifest(disk, CreatedManifestPath)

\* C13: after a successful create the manifest written for the project has
\* the configured package id, or my.cordova.project when none is
\* configured, and as activity name the configured one if there is one,
\* else the activityName option if there is one, else MainActivity.
C13_ManifestIdentity ==
    CreateSucceeded =>
        /\ CanLoadManifest(disk, CreatedManifestPath)
        /\ CreatedManifest.package =
                (IF cargs.packageName # <<>> THEN cargs.packageName
                 ELSE <<"m", "y", ".", "c", "o", "r", "d", "o", "v", "a", ".",
                        "p", "r", "o", "j", "e", "c", "t">>)
        /\ CreatedManifest.activity =
                (IF cargs.android_activityName # <<>> THEN cargs.android_activityName
                 ELSE IF cargs.activityName # <<>> THEN cargs.activityName
                 ELSE <<"M", "a", "i", "n", "A", "c", "t", "i", "v", "i", "t", "y">>)

\* a create with no configured package id or activity name and an
\* activityName option has succeeded
C13_Witness ==
    /\ CreateSucceeded
    /\ cargs.packageName = <<>>
    /\ cargs.android_activityName = <<>>
    /\ cargs.activityName = <<"O", "p", "t">>
    /\ CreatedManifest.activity = <<"O", "p", "t">>

\* CordovaLib in project directory P is a symbolic link to the shared
\* framework directory of the installation
LibraryIsLink(d, P) ==
    LET lib == PathResolve(PathJoin(P, <<"CordovaLib">>))
    IN  /\ lib \in DOMAIN d
        /\ d[lib].kind = "link"
        /\ PathJoin(PathResolve(P), d[lib].data.to)
                = <<"/", "opt", "cordova-android", "framework">>
        /\ \A r \in DOMAIN d : IsPrefix(lib, r) => r = lib

\* CordovaLib in project directory P is a directory that holds the copy
LibraryIsCopy(d, P) ==
    LET lib == PathResolve(PathJoin(P, <<"CordovaLib">>))
    IN  /\ lib \in DOMAIN d
        /\ d[lib].kind = "dir"
        /\ lib \o <<"build.gradle">> \in DOMAIN d
        /\ lib \o <<"src">> \in DOMAIN d
        /\ d[lib \o <<"src">>].kind = "dir"

\* C14: once the library step of a create or update has run, CordovaLib is
\* a symbolic link to the shared framework directory when the link option
\* is set and a directory holding a copy when it is not, whatever was at
\* CordovaLib before (nothing, a link or a directory).
C14_LibraryMatchesLinkOption ==
    /\ UpdateSucceeded =>
            IF uargs.link THEN LibraryIsLink(disk, uargs.projectPath)
            ELSE LibraryIsCopy(disk, uargs.projectPath)
    /\ CreateSucceeded =>
            IF cargs.link THEN LibraryIsLink(disk, Destination)
            ELSE LibraryIsCopy(disk, Destination)

\* an update without the link option has succeeded on a project whose
\* CordovaLib was a link
C14_Witness ==
    /\ UpdateSucceeded
    /\ ~uargs.link
    /\ PathResolve(PathJoin(uargs.projectPath, <<"CordovaLib">>)) \in DOMAIN disk0
    /\ disk0[PathResolve(PathJoin(uargs.projectPath, <<"CordovaLib">>))].kind = "link"
    /\ LibraryIsCopy(disk, uargs.projectPath)

(***************************************************************************)
(* Properties of the promises of addPlugin and removePlugin                *)
(***************************************************************************)
\* no collaborator has failed and prepBuildFiles has not thrown
EveryStepSucceeded ==
    /\ \A i \in 1..Len(trace) : trace[i].ph # "fail"
    /\ chain # Rejected("prepBuildFiles")

\* C15: the promise of addPlugin and removePlugin resolves with true when
\* every step of the chain has succeeded, with or without a regeneration of
\* the build files; when the plugin-manager step fails the promise is
\* rejected with the plugin manager's error and never resolved, the build
\* files are not regenerated and the plugin manager is not called again.
C15_PluginPromiseOutcome ==
    op \in {"addPlugin", "removePlugin"} =>
        /\ (pc = "done" /\ EveryStepSucceeded) => result = Resolved("true")
        /\ result.state = "resolved" => result.value = "true"
        /\ At(PluginManagerStep, "fail") # {} =>
                /\ result.state # "resolved"
                /\ pc = "done" => result = Rejected(PluginManagerStep)
                /\ At("prepBuildFiles", "call") = {}
                /\ Cardinality(At(PluginManagerStep, "start")) = 1

\* an addPlugin call whose plugin manager failed has settled
C15_Witness ==
    /\ op = "addPlugin" /\ pc = "done"
    /\ aargs.frameworks >= 1
    /\ At("pm.addPlugin", "fail") # {}
    /\ result = Rejected("pm.addPlugin")

(***************************************************************************)
(* Properties of an update that follows a create                           *)
(***************************************************************************)
\* an update of the project that the create before it has made is over
UpdateAfterCreate ==
    /\ op = "update" /\ pc = "done"
    /\ prev.op = "create"
    /\ prev.path = uargs.projectPath

\* C16: an update of a project that create has just made loads and rewrites
\* the manifest file that create wrote: the update succeeds and that file
\* has debuggable false and a minimum SDK version of at least 16.
C16_UpdateRewritesCreatedManifest ==
    UpdateAfterCreate =>
        /\ PathResolve(UpdateManifestPath) = PathResolve(CreatedManifestPath)
        /\ result.state = "resolved"
        /\ CreatedManifest.debuggable = "false"
        /\ NumberOf(CreatedManifest.minSdkVersion) >= 16

(***************************************************************************)
(* Properties of setShellFatal                                             *)
(***************************************************************************)
\* C17: once the setShellFatal(true, ...) of create's scaffolding callback
\* is over, whether its function returned or threw, shell.config.fatal is
\* what it was before the call (false, the default no call sets otherwise).
C17_FatalFlagRestored ==
    (op = "create" /\ pc \in {"create_thenResolve", "done"}) =>
        shellFatal = FALSE

=============================================================================
